---- MODULE Spec2Model ----
(***************************************************************************)
(* A model of the tushare download pipeline of mfm_learner:                *)
(*   utils/tushare_download/downloaders/base_downloader.py  (BaseDownload) *)
(*   utils/tushare_download/downloaders/trade_cal.py        (TradeCalendar)*)
(* and of the rebalancing strategy of its backtest example:                *)
(*   example/backtest/strategy_base.py       (MultiStocksFactorStrategy)   *)
(*                                                                         *)
(* Time is counted in milliseconds.  A date string 'YYYYMMDD' is modelled  *)
(* by the number YYYYMMDD: the strings are fixed-width digit strings, so   *)
(* their lexicographic order is the order of these numbers.                *)
(***************************************************************************)
EXTENDS Integers, Sequences, FiniteSets, TLC

\* ---------------------------------------------------------------- constants
RETRY == 5
MAX_PER_SECOND == 200
\* CALL_INTERVAL = 60 / MAX_PER_SECOND seconds, here in milliseconds
CALL_INTERVAL == (60 * 1000) \div MAX_PER_SECOND
EALIEST_DATE == 20080101
\* the literal 30 of time.sleep(sleep*30), in seconds
BaseDelay == 30

\* ------------------------------------------------------------------- bounds
\* retry_call invocations made by one execution context
MaxInvocations == 2
\* rows a table may hold
MaxRows == 2
\* rows of one row-set (DataFrame) handed to to_db
MaxDf == 1
\* retry_call invocations of one context when two contexts run concurrently
MaxConcInvocations == 1
\* rows of the table, and of one row-set, in the end-to-end scenario
MaxScenarioRows == 3
\* the largest rebalancing period a strategy is constructed with
MaxPeriod == 2
\* next() callbacks a backtest delivers
MaxCallbacks == 4
\* stocks one select_stocks call returns
MaxSelected == 2

\* ------------------------------------------------------------------ domains
\* execution contexts, each owning one downloader instance
Contexts == {1, 2}
\* keyword arguments passed to retry_call
Params == {"start_date=20080101", "start_date=20090101"}
\* what a failing provider call raises
Causes == {"timeout", "quota"}
\* time a provider call takes, in milliseconds
CallDurations == {0, CALL_INTERVAL}
\* dates a row may carry: the day before a leap day, the last day of the
\* February of a common year, the last day of a year
Dates == {20080228, 20090228, 20091231}

SeqsUpTo(S, n) == UNION {[1..k -> S] : k \in 0..n}
\* the row-sets a provider call may return
DataFrames == SeqsUpTo(Dates, MaxDf)
\* the row-sets func returns inside retry_call
ProviderFrames == {<<>>, <<EALIEST_DATE>>}
\* the days of the end-to-end scenario, '20080101' .. '20080103'
ScenarioDates == {EALIEST_DATE, EALIEST_DATE + 1, EALIEST_DATE + 2}
\* the row-sets the provider returns in the end-to-end scenario
ScenarioFrames == SeqsUpTo(ScenarioDates, MaxScenarioRows)
\* self.getdatanames(): the names of the stocks in the data feed
getdatanames == {"A", "B", "C"}
\* the names select_stocks may return: the feed's, and one the feed lacks
Universe == getdatanames \cup {"X"}
\* the period argument of the constructor
Periods == 0..MaxPeriod
\* the lists select_stocks may return
Selections == SeqsUpTo(Universe, MaxSelected)

VARIABLES
    \* --- one downloader per execution context
    retry_count,   \* self.retry_count
    pc,            \* where the context is: idle / loop / sleeping / returned / raised
    wake,          \* the time a sleeping context's time.sleep ends
    frame,         \* the running (or last) retry_call: its arguments and what it did
    invocations,   \* retry_call invocations started so far
    \* --- the world
    now,           \* the clock
    releases,      \* the last two provider calls executed: who and when
    \* --- the store
    tableExists,   \* whether the target table exists
    rows,          \* the date column of the table's rows, in insertion order
    hasIndex,      \* whether the table's index exists
    \* --- the last store operation and the cycles before it
    lastOp,        \* the last store operation and how it ended
    startDate,     \* what the last get_start_date returned (<<>>: none since)
    lastWrite,     \* the last to_db: content before, row-set, mode, outcome
    prevEmpty,     \* the to_db before lastWrite, if it wrote an empty row-set
    \* --- the strategy of the backtest
    strategy_pc,   \* none (not constructed) / ready / raised (next() raised)
    period,        \* self.period
    current_day,   \* self.current_day
    count,         \* self.count
    current_stocks,\* self.current_stocks
    callbacks,     \* next() callbacks the backtest has delivered
    last           \* what the last next() callback did

retryVars == <<retry_count, pc, wake, frame, invocations, now, releases>>
storeVars == <<tableExists, rows, hasIndex, lastOp, startDate, lastWrite, prevEmpty>>
strategyVars == <<strategy_pc, period, current_day, count, current_stocks,
                  callbacks, last>>
vars == <<retry_count, pc, wake, frame, invocations, now, releases,
          tableExists, rows, hasIndex, lastOp, startDate, lastWrite, prevEmpty,
          strategy_pc, period, current_day, count, current_stocks,
          callbacks, last>>

\* ------------------------------------------------------------ retry_call
NoError == [type |-> "none", cause |-> "none", params |-> "none"]
NoFrame ==
    [kwargs |-> "none", start_count |-> 0, calls |-> 0, fails |-> 0, slept |-> 0,
     cause |-> "none", provided |-> <<>>, result |-> <<>>, error |-> NoError]

Max2(a, b) == IF a >= b THEN a ELSE b

\* keep the last two provider calls
Released(c, t) ==
    IF Len(releases) < 2 THEN Append(releases, [ctx |-> c, at |-> t])
    ELSE <<releases[2], [ctx |-> c, at |-> t]>>

\* while self.retry_count < RETRY
loop_test(rc) == rc < RETRY

\* a backoff that multiplies where the code raises to a power
backoff_times(rc) == 2 * rc

\* sleep = int(math.pow(2, self.retry_count))
backoff(rc) == 2 ^ rc

\* a backoff that raises at once after the last failed attempt
sleep_ms_not_last(rc) == IF rc + 1 < RETRY THEN backoff(rc) * BaseDelay * 1000 ELSE 0

\* time.sleep(sleep*30), in milliseconds
sleep_ms(rc) == backoff(rc) * BaseDelay * 1000

\* a success that leaves the attempt count where it was
count_after_success_kept(rc) == rc

\* self.retry_count = 0
count_after_success(rc) == 0

\* self.retry_count += 1
count_after_failure(rc) == rc + 1

\* an error built inside the except block from the failure and kwargs
raised_error_from(cause, kw) == [type |-> "RuntimeError", cause |-> cause, params |-> kw]

\* raise RuntimeError("..."): raised after the loop, outside the except block,
\* so it carries only its message: neither the failure that caused it nor kwargs
raised_error(cause, kw) == [type |-> "RuntimeError", cause |-> "none", params |-> "none"]

\* what retry_call hands back for the row-set func returned
returned_value(df) == <<df>>

\* a caller enters retry_call(func, **kwargs); nothing of the instance is touched
retry_call(c, kw) ==
    /\ pc[c] \in {"idle", "returned", "raised"}
    /\ invocations[c] < MaxInvocations
    /\ invocations' = [invocations EXCEPT ![c] = @ + 1]
    /\ pc' = [pc EXCEPT ![c] = "loop"]
    /\ frame' = [frame EXCEPT ![c] = [NoFrame EXCEPT !.kwargs = kw,
                                                     !.start_count = retry_count[c]]]
    /\ UNCHANGED <<retry_count, wake, now, releases>>
    /\ UNCHANGED <<storeVars, strategyVars>>

\* the loop test passes, func(**kwargs) takes d and returns df:
\* self.retry_count = 0; return df
attempt_returns(c, d, df) ==
    /\ pc[c] = "loop"
    /\ loop_test(retry_count[c])
    /\ releases' = Released(c, now)
    /\ now' = now + d
    /\ retry_count' = [retry_count EXCEPT ![c] = count_after_success(@)]
    /\ frame' = [frame EXCEPT ![c].calls = @ + 1,
                              ![c].provided = <<df>>,
                              ![c].result = returned_value(df)]
    /\ pc' = [pc EXCEPT ![c] = "returned"]
    /\ UNCHANGED <<wake, invocations>>
    /\ UNCHANGED <<storeVars, strategyVars>>

\* the loop test passes, func(**kwargs) takes d and raises: the failure is
\* logged and the context goes to sleep for sleep*30 seconds
attempt_raises(c, d, cause) ==
    /\ pc[c] = "loop"
    /\ loop_test(retry_count[c])
    /\ releases' = Released(c, now)
    /\ now' = now + d
    /\ frame' = [frame EXCEPT ![c].calls = @ + 1,
                              ![c].fails = @ + 1,
                              ![c].cause = cause]
    /\ wake' = [wake EXCEPT ![c] = now + d + sleep_ms(retry_count[c])]
    /\ pc' = [pc EXCEPT ![c] = "sleeping"]
    /\ UNCHANGED <<retry_count, invocations>>
    /\ UNCHANGED <<storeVars, strategyVars>>

\* time.sleep returns (never early): self.retry_count += 1, back to the loop test
sleep_returns(c) ==
    /\ pc[c] = "sleeping"
    /\ now' = Max2(now, wake[c])
    /\ frame' = [frame EXCEPT ![c].slept = @ + sleep_ms(retry_count[c])]
    /\ retry_count' = [retry_count EXCEPT ![c] = count_after_failure(@)]
    /\ pc' = [pc EXCEPT ![c] = "loop"]
    /\ UNCHANGED <<wake, invocations, releases>>
    /\ UNCHANGED <<storeVars, strategyVars>>

\* the loop test fails: raise RuntimeError
raise_exhausted(c) ==
    /\ pc[c] = "loop"
    /\ ~loop_test(retry_count[c])
    /\ frame' = [frame EXCEPT ![c].error = raised_error(frame[c].cause, frame[c].kwargs)]
    /\ pc' = [pc EXCEPT ![c] = "raised"]
    /\ UNCHANGED <<retry_count, wake, invocations, now, releases>>
    /\ UNCHANGED <<storeVars, strategyVars>>

RetryStep(c) ==
    \/ \E kw \in Params : retry_call(c, kw)
    \/ \E d \in CallDurations, df \in ProviderFrames : attempt_returns(c, d, df)
    \/ \E d \in CallDurations, cause \in Causes : attempt_raises(c, d, cause)
    \/ sleep_returns(c)
    \/ raise_exhausted(c)

\* ------------------------------------------------------------- the store
\* no to_db yet
NoWrite == [by |-> "none", pre |-> <<>>, df |-> <<>>, mode |-> "none", ok |-> FALSE]

\* db_utils.is_table_exist(engine, table_name)
is_table_exist(exists) == exists

RECURSIVE SeqMax(_)
SeqMax(s) == IF Len(s) = 1 THEN s[1] ELSE Max2(s[1], SeqMax(Tail(s)))

\* pd.read_sql('select max(col) from table'): always one row, which holds
\* NULL (here <<>>) when the table has no row; .iloc[:, 0].item() takes it out
select_max(rs) == IF rs = <<>> THEN <<>> ELSE <<SeqMax(rs)>>

IsLeapYear(y) == (y % 4 = 0 /\ y % 100 # 0) \/ y % 400 = 0

DaysInMonth(y, m) ==
    IF m = 2 THEN (IF IsLeapYear(y) THEN 29 ELSE 28)
    ELSE IF m \in {4, 6, 9, 11} THEN 30 ELSE 31

\* utils.tomorrow(date_str): parse 'YYYYMMDD', add one day, format again
tomorrow(date) ==
    LET y == date \div 10000
        m == (date \div 100) % 100
        d == date % 100
    IN  IF d < DaysInMonth(y, m) THEN y * 10000 + m * 100 + (d + 1)
        ELSE IF m < 12 THEN y * 10000 + (m + 1) * 100 + 1
        ELSE (y + 1) * 10000 + 100 + 1

\* get_start_date without the "latest_date is None" branch taken for what it is:
\* an empty table is answered with the day after the fallback date
get_start_date_empty_shifted(exists, rs) ==
    IF ~is_table_exist(exists) THEN EALIEST_DATE
    ELSE IF select_max(rs) = <<>> THEN tomorrow(EALIEST_DATE)
    ELSE tomorrow(select_max(rs)[1])

\* get_start_date that forgets to move one day on
get_start_date_same_day(exists, rs) ==
    IF ~is_table_exist(exists) THEN EALIEST_DATE
    ELSE IF select_max(rs) = <<>> THEN EALIEST_DATE
    ELSE select_max(rs)[1]

\* BaseDownload.get_start_date
get_start_date(exists, rs) ==
    IF ~is_table_exist(exists) THEN EALIEST_DATE
    ELSE LET latest_date == select_max(rs)
         IN  IF latest_date = <<>> THEN EALIEST_DATE
             ELSE tomorrow(latest_date[1])

\* df.to_sql(table, engine, if_exists=...): 'append' creates the table if it
\* is missing and inserts after the rows it holds; 'replace' drops the table,
\* creates it again and inserts
to_sql(exists, rs, df, if_exists) ==
    [exists |-> TRUE,
     rows |-> IF if_exists = "replace" THEN df ELSE rs \o df]

\* db_utils.create_db_index(engine, table_name, df): the index exists afterwards
create_db_index(index) == TRUE

\* to_db that hands 'replace' to to_sql whatever the caller asked for
to_db_written_replacing(exists, rs, index, df, if_exists) ==
    [exists |-> TRUE, rows |-> to_sql(exists, rs, df, "replace").rows,
     index |-> create_db_index(index)]

\* to_db that appends whatever the caller asked for
to_db_written_appending(exists, rs, index, df, if_exists) ==
    [exists |-> TRUE, rows |-> to_sql(exists, rs, df, "append").rows,
     index |-> create_db_index(index)]

\* BaseDownload.to_db when the write succeeds: to_sql, then create_db_index
to_db_written(exists, rs, index, df, if_exists) ==
    LET t == to_sql(exists, rs, df, if_exists)
    IN  [exists |-> t.exists, rows |-> t.rows, index |-> create_db_index(index)]

\* a write that raises half way and keeps the rows it had inserted
to_db_failed_partial(exists, rs, index, df, if_exists) ==
    {[exists |-> TRUE, rows |-> to_sql(exists, rs, df, if_exists).rows, index |-> exists /\ index]}

\* BaseDownload.to_db when to_sql raises: the exception leaves to_db before
\* create_db_index.  What the store holds then depends on where the write
\* failed and on the database: nothing was done yet, or the table was created
\* (append) or dropped and created again (replace) and the insert, one
\* transaction, was rolled back
to_db_failed(exists, rs, index, df, if_exists) ==
    {[exists |-> exists, rows |-> rs, index |-> index],
     IF if_exists = "replace"
     THEN [exists |-> TRUE, rows |-> <<>>, index |-> FALSE]
     ELSE [exists |-> TRUE, rows |-> rs, index |-> exists /\ index]}

\* the context that runs the store operations is not inside retry_call
Sequential == pc[1] \notin {"loop", "sleeping"}

\* a get_start_date that creates the table it does not find
GetStartDate_creating ==
    /\ Sequential
    /\ lastOp' = "get_start_date"
    /\ startDate' = <<get_start_date(tableExists, rows)>>
    /\ tableExists' = TRUE
    /\ UNCHANGED <<rows, hasIndex, lastWrite, prevEmpty>>
    /\ UNCHANGED <<retryVars, strategyVars>>

\* downloader.get_start_date()
GetStartDate ==
    /\ Sequential
    /\ lastOp' = "get_start_date"
    /\ startDate' = <<get_start_date(tableExists, rows)>>
    /\ UNCHANGED <<tableExists, rows, hasIndex, lastWrite, prevEmpty>>
    /\ UNCHANGED <<retryVars, strategyVars>>

Logged(by, df, if_exists, ok) ==
    /\ prevEmpty' = IF lastWrite.ok /\ lastWrite.df = <<>> THEN lastWrite ELSE NoWrite
    /\ lastWrite' = [by |-> by, pre |-> rows, df |-> df, mode |-> if_exists, ok |-> ok]
    /\ startDate' = <<>>

Stored(t) ==
    /\ tableExists' = t.exists
    /\ rows' = t.rows
    /\ hasIndex' = t.index

Fits(df, if_exists) == if_exists = "replace" \/ Len(rows) + Len(df) <= MaxRows

\* downloader.to_db(df, if_exists) returns
to_db(by, df, if_exists) ==
    /\ Sequential
    /\ Fits(df, if_exists)
    /\ Stored(to_db_written(tableExists, rows, hasIndex, df, if_exists))
    /\ Logged(by, df, if_exists, TRUE)
    /\ lastOp' = by
    /\ UNCHANGED <<retryVars, strategyVars>>

\* downloader.to_db(df, if_exists) raises out of to_sql
to_db_raises(by, df, if_exists) ==
    /\ Sequential
    /\ Fits(df, if_exists)
    /\ \E t \in to_db_failed(tableExists, rows, hasIndex, df, if_exists) : Stored(t)
    /\ Logged(by, df, if_exists, FALSE)
    /\ lastOp' = "raised"
    /\ UNCHANGED <<retryVars, strategyVars>>

\* downloader.to_db(df), if_exists left at its default 'append', returns: the
\* write of an incremental cycle, here with the row-sets of the scenario
to_db_default(df) ==
    /\ Sequential
    /\ Len(rows) + Len(df) <= MaxScenarioRows
    /\ Stored(to_db_written(tableExists, rows, hasIndex, df, "append"))
    /\ Logged("to_db", df, "append", TRUE)
    /\ lastOp' = "to_db"
    /\ UNCHANGED <<retryVars, strategyVars>>

\* TradeCalendar.download(): self.pro.trade_cal() returns df, which replaces
\* the table: self.to_db(df, if_exists='replace')
download(df) ==
    /\ df \in DataFrames
    /\ to_db("download", df, "replace")

\* TradeCalendar.download(): self.pro.trade_cal() returns df, to_db raises
download_write_raises(df) ==
    /\ df \in DataFrames
    /\ to_db_raises("download", df, "replace")

\* a download that writes what it has, nothing, although the fetch raised
download_fetch_raises_writing ==
    /\ Sequential
    /\ Stored(to_db_written(tableExists, rows, hasIndex, <<>>, "replace"))
    /\ lastOp' = "fetch_raised"
    /\ startDate' = <<>>
    /\ UNCHANGED <<lastWrite, prevEmpty>>
    /\ UNCHANGED <<retryVars, strategyVars>>

\* TradeCalendar.download(): self.pro.trade_cal() raises; the exception leaves
\* download before to_db
download_fetch_raises ==
    /\ Sequential
    /\ lastOp' = "fetch_raised"
    /\ startDate' = <<>>
    /\ UNCHANGED <<tableExists, rows, hasIndex, lastWrite, prevEmpty>>
    /\ UNCHANGED <<retryVars, strategyVars>>

\* ------------------------------------------- MultiStocksFactorStrategy
Range(s) == {s[i] : i \in DOMAIN s}

\* the record of a callback that did nothing
NoCallback ==
    [reached |-> FALSE, selected |-> <<>>, prev |-> <<>>,
     closed |-> {}, bought |-> <<>>, raised |-> FALSE]

\* a period test that also waits on the day the period is complete
not_yet_inclusive(day, p) == day <= p

\* if self.current_day < self.period: return
not_yet(day, p) == day < p

\* to_sell_stocks = set(self.current_stocks) - set(selected_stocks)
to_sell_stocks(stocks, selected) == Range(stocks) \ Range(selected)

\* the sell loop: self.current_stocks.remove(sell_stock) for every stock to sell
after_sells(stocks, selected) ==
    LET kept(stock) == stock \notin to_sell_stocks(stocks, selected)
    IN  SelectSeq(stocks, kept)

\* a buy loop that skips only the names the feed lacks
skips_missing_only(buy_stock, stocks) == buy_stock \notin getdatanames

\* the two 'continue' tests of the buy loop
skips(buy_stock, stocks) ==
    \/ buy_stock \notin getdatanames
    \/ buy_stock \in Range(stocks)

RECURSIVE buy_loop(_, _, _, _)
\* for buy_stock in selected_stocks: ... self.buy(...); append.  The division
\* buy_amount / open_price raises for a stock whose open price is 0 (zero_open)
buy_loop(stocks, bought, selected, zero_open) ==
    IF selected = <<>>
    THEN [stocks |-> stocks, bought |-> bought, raised |-> FALSE]
    ELSE LET buy_stock == Head(selected)
         IN  IF skips(buy_stock, stocks)
             THEN buy_loop(stocks, bought, Tail(selected), zero_open)
             ELSE IF buy_stock \in zero_open
             THEN [stocks |-> stocks, bought |-> bought, raised |-> TRUE]
             ELSE buy_loop(Append(stocks, buy_stock), Append(bought, buy_stock),
                           Tail(selected), zero_open)

\* MultiStocksFactorStrategy.__init__(period, factor_dict)
strategy_init(p) ==
    /\ strategy_pc = "none"
    /\ strategy_pc' = "ready"
    /\ period' = p
    /\ current_day' = 0
    /\ current_stocks' = <<>>
    /\ count' = 0
    /\ UNCHANGED <<callbacks, last>>
    /\ UNCHANGED <<retryVars, storeVars>>

\* the head of next(): the backtest delivers one more bar
next_called ==
    /\ strategy_pc = "ready"
    /\ callbacks < MaxCallbacks
    /\ callbacks' = callbacks + 1
    /\ count' = count + 1
    /\ UNCHANGED period
    /\ UNCHANGED <<retryVars, storeVars>>

\* next(): the period is not complete, return
next_waits ==
    /\ next_called
    /\ not_yet(current_day + 1, period)
    /\ current_day' = current_day + 1
    /\ last' = [NoCallback EXCEPT !.prev = current_stocks]
    /\ UNCHANGED <<strategy_pc, current_stocks>>

\* next(): the period is complete, select_stocks returns None
next_selects_none ==
    /\ next_called
    /\ ~not_yet(current_day + 1, period)
    /\ current_day' = 0
    /\ last' = [NoCallback EXCEPT !.reached = TRUE, !.prev = current_stocks]
    /\ UNCHANGED <<strategy_pc, current_stocks>>

\* next(): the period is complete, select_stocks returns a list; the stocks
\* held and not selected are closed, then the buy loop runs
next_rebalances(selected, zero_open) ==
    LET kept == after_sells(current_stocks, selected)
        done == buy_loop(kept, <<>>, selected, zero_open)
        \* buy_percentage = (1 - 0.02) / len(selected_stocks)
        divides == selected # <<>>
        raises == ~divides \/ done.raised
    IN  /\ next_called
        /\ ~not_yet(current_day + 1, period)
        /\ current_day' = 0
        /\ current_stocks' = IF divides THEN done.stocks ELSE kept
        /\ strategy_pc' = IF raises THEN "raised" ELSE "ready"
        /\ last' = [reached |-> TRUE, selected |-> <<selected>>,
                    prev |-> current_stocks,
                    closed |-> to_sell_stocks(current_stocks, selected),
                    bought |-> IF divides THEN done.bought ELSE <<>>,
                    raised |-> raises]

\* ------------------------------------------------------------------ Init
\* BaseDownload.__init__ of every context's downloader: self.retry_count = 0
InitDownloaders ==
    /\ retry_count = [c \in Contexts |-> 0]
    /\ pc = [c \in Contexts |-> "idle"]
    /\ wake = [c \in Contexts |-> 0]
    /\ frame = [c \in Contexts |-> NoFrame]
    /\ invocations = [c \in Contexts |-> 0]
    /\ now = 0
    /\ releases = <<>>

InitLog ==
    /\ lastOp = "none"
    /\ startDate = <<>>
    /\ lastWrite = NoWrite
    /\ prevEmpty = NoWrite

\* no strategy has been constructed
InitStrategy ==
    /\ strategy_pc = "none"
    /\ period = 0
    /\ current_day = 0
    /\ count = 0
    /\ current_stocks = <<>>
    /\ callbacks = 0
    /\ last = NoCallback

\* a store that has never been written
Init ==
    /\ InitDownloaders
    /\ tableExists = FALSE
    /\ rows = <<>>
    /\ hasIndex = FALSE
    /\ InitLog
    /\ InitStrategy

\* one execution context drives its downloader's retry_call
NextRetry == RetryStep(1)

SpecRetry == Init /\ [][NextRetry]_vars

\* two execution contexts, each with a downloader of its own, run retry_call
\* with no synchronisation between them; the provider answers at once
NextConc ==
    \E c \in Contexts :
        \/ \E kw \in Params : invocations[c] < MaxConcInvocations /\ retry_call(c, kw)
        \/ \E df \in ProviderFrames : attempt_returns(c, 0, df)
        \/ \E cause \in Causes : attempt_raises(c, 0, cause)
        \/ sleep_returns(c)
        \/ raise_exhausted(c)

SpecConc == Init /\ [][NextConc]_vars


\* the store operations of one downloader
NextStore ==
    \/ GetStartDate
    \/ \E df \in DataFrames, if_exists \in {"append", "replace"} : to_db("to_db", df, if_exists)
    \/ \E df \in DataFrames, if_exists \in {"append", "replace"} : to_db_raises("to_db", df, if_exists)
    \/ \E df \in DataFrames : download(df)
    \/ \E df \in DataFrames : download_write_raises(df)
    \/ download_fetch_raises

SpecStore == Init /\ [][NextStore]_vars

\* incremental cycles from an empty store: the start date is resolved, the
\* provider's row-set is appended
NextScenario ==
    \/ GetStartDate
    \/ \E df \in ScenarioFrames : to_db_default(df)

SpecScenario == Init /\ [][NextScenario]_vars

\* one execution context alternating TradeCalendar.download cycles, reads of
\* the start date and retry_call invocations (the provider answers at once)
NextCycle ==
    \/ \E kw \in Params : invocations[1] < MaxConcInvocations /\ retry_call(1, kw)
    \/ \E df \in ProviderFrames : attempt_returns(1, 0, df)
    \/ \E cause \in Causes : attempt_raises(1, 0, cause)
    \/ sleep_returns(1)
    \/ raise_exhausted(1)
    \/ GetStartDate
    \/ \E df \in DataFrames : download(df)
    \/ \E df \in DataFrames : download_write_raises(df)
    \/ download_fetch_raises

SpecCycle == Init /\ [][NextCycle]_vars

\* a backtest constructs the strategy and delivers next() callbacks to it
NextStrategy ==
    \/ \E p \in Periods : strategy_init(p)
    \/ next_waits
    \/ next_selects_none
    \/ \E selected \in Selections, zero_open \in SUBSET getdatanames :
           next_rebalances(selected, zero_open)

SpecStrategy == Init /\ [][NextStrategy]_vars

\* one execution context running any operation of its downloader; retry_call
\* and the store operations touch disjoint state, so SpecRetry and SpecStore
\* explore each part alone
Next == NextRetry \/ NextStore \/ NextStrategy

Spec == Init /\ [][Next]_vars

\* ------------------------------------------------------ claims: retry_call
RECURSIVE BackoffSum(_)
\* the sum of 2^i * base_delay for i in [0, k), in milliseconds
BackoffSum(k) == IF k = 0 THEN 0 ELSE BackoffSum(k - 1) + (2 ^ (k - 1)) * 30 * 1000

\* C1: an invocation that started on a fresh invoker (attempt count 0) and
\* returned after k failed calls has k < RETRY, hands back the row-set of the
\* successful call, executed the provider call k+1 times and slept
\* sum of 2^i * 30 s for i in [0, k).
C1_RetryThenSuccess ==
    \A c \in Contexts :
        (pc[c] = "returned" /\ frame[c].start_count = 0) =>
            /\ frame[c].fails < RETRY
            /\ frame[c].provided # <<>>
            /\ frame[c].result = frame[c].provided
            /\ frame[c].calls = frame[c].fails + 1
            /\ frame[c].slept = BackoffSum(frame[c].fails)

\* C1 witness: two failures, then success on the 3rd call, 30 + 60 = 90 s slept
C1_Witness ==
    /\ pc[1] = "returned"
    /\ frame[1].start_count = 0
    /\ frame[1].fails = 2
    /\ frame[1].calls = 3
    /\ frame[1].slept = 90000
    /\ frame[1].result = <<(<<EALIEST_DATE>>)>>

\* C2 (as claimed): every invocation that ends in the exhaustion error has
\* executed the provider call exactly RETRY times, all of them failing.
C2_ExhaustsAfterRetryCalls ==
    \A c \in Contexts :
        pc[c] = "raised" => (frame[c].calls = RETRY /\ frame[c].fails = RETRY)

\* C3 (as claimed): every invocation starts with attempt = 0, whatever the
\* earlier invocations on the same invoker did.
C3_AttemptStartsAtZero ==
    \A c \in Contexts : pc[c] # "idle" => frame[c].start_count = 0

\* C4 (as claimed): the exhaustion error carries the cause of the last failed
\* attempt and the call parameters, and no row-set is returned.
C4_ErrorCarriesCauseAndParams ==
    \A c \in Contexts :
        pc[c] = "raised" =>
            /\ frame[c].error.cause = frame[c].cause
            /\ frame[c].error.params = frame[c].kwargs
            /\ frame[c].result = <<>>

\* C4 (amended): the exhaustion error is a RuntimeError that carries only its
\* fixed message, neither a cause nor the call parameters; it reaches the
\* caller and no row-set is returned, and an invocation that returns a
\* row-set raised nothing.
C4_ErrorIsBareRuntimeError ==
    \A c \in Contexts :
        /\ pc[c] = "raised" =>
              /\ frame[c].error = [type |-> "RuntimeError", cause |-> "none", params |-> "none"]
              /\ frame[c].result = <<>>
              /\ ~(retry_count[c] < RETRY)
        /\ pc[c] = "returned" => frame[c].error = NoError

\* C4 witness: an invocation exhausted by RETRY failures has raised
C4_Witness ==
    /\ pc[1] = "raised"
    /\ frame[1].fails = RETRY
    /\ frame[1].cause = "quota"
    /\ frame[1].kwargs = "start_date=20090101"

\* C5 (as claimed): two consecutive provider calls of one downloader are at
\* least CALL_INTERVAL apart.
C5_CallsAreThrottled ==
    (Len(releases) = 2 /\ releases[1].ctx = releases[2].ctx) =>
        releases[2].at - releases[1].at >= CALL_INTERVAL

\* C6 (as claimed): two provider calls released by different execution
\* contexts are never inside the same interval.
C6_NoTwoReleasedInOneInterval ==
    (Len(releases) = 2 /\ releases[1].ctx # releases[2].ctx) =>
        releases[2].at - releases[1].at >= CALL_INTERVAL

\* ------------------------------------------------------- claims: the store
\* the Julian day number of the calendar day YYYYMMDD
DayNumber(date) ==
    LET y == date \div 10000
        m == (date \div 100) % 100
        d == date % 100
        a == (14 - m) \div 12
        yy == y + 4800 - a
        mm == m + 12 * a - 3
    IN  d + ((153 * mm + 2) \div 5) + 365 * yy + (yy \div 4) - (yy \div 100)
          + (yy \div 400) - 32045

\* YYYYMMDD names a day of the Gregorian calendar
IsCalendarDay(date) ==
    LET y == date \div 10000
        m == (date \div 100) % 100
        d == date % 100
        len == <<31, 28, 31, 30, 31, 30, 31, 31, 30, 31, 30, 31>>
        feb29 == IF y % 400 = 0 THEN 1 ELSE IF y % 100 = 0 THEN 0
                 ELSE IF y % 4 = 0 THEN 1 ELSE 0
    IN  /\ m \in 1..12
        /\ d >= 1
        /\ d <= len[m] + (IF m = 2 THEN feb29 ELSE 0)

\* the largest date of a non-empty table
StoredMax(rs) == CHOOSE x \in {rs[i] : i \in 1..Len(rs)} : \A j \in 1..Len(rs) : rs[j] <= x

\* C7: get_start_date returns the fallback date '20080101' when the table
\* does not exist, and when it exists and holds no row.
C7_FallbackDate ==
    (lastOp = "get_start_date" /\ (~tableExists \/ rows = <<>>)) =>
        startDate = <<EALIEST_DATE>>

\* C7 witness: the table exists, holds no row, and get_start_date answered
C7_Witness ==
    /\ lastOp = "get_start_date"
    /\ tableExists
    /\ rows = <<>>
    /\ startDate = <<20080101>>

C9_AppendKeepsReplaceCounts ==
    lastWrite.ok =>
        /\ lastWrite.mode = "append" =>
              /\ Len(rows) = Len(lastWrite.pre) + Len(lastWrite.df)
              /\ SubSeq(rows, 1, Len(lastWrite.pre)) = lastWrite.pre
        /\ lastWrite.mode = "replace" => Len(rows) = Len(lastWrite.df)

\* C9 witness: an append of one row to a table that held one
C9_Witness ==
    /\ lastWrite.ok
    /\ lastWrite.mode = "append"
    /\ lastWrite.pre = <<20091231>>
    /\ lastWrite.df = <<20080228>>
    /\ rows = <<20091231, 20080228>>

\* two cycles of the same kind in a row, each ending well with an empty row-set
TwoEmptyCycles ==
    /\ prevEmpty.ok
    /\ lastWrite.ok
    /\ prevEmpty.df = <<>>
    /\ lastWrite.df = <<>>
    /\ prevEmpty.by = lastWrite.by
    /\ prevEmpty.mode = lastWrite.mode

\* C10 (as claimed): after two cycles in a row with an empty row-set the table
\* holds what it held before the first of them.
C10_TwoEmptyCyclesChangeNothing ==
    TwoEmptyCycles => rows = prevEmpty.pre

\* C10 (amended): the second of two such cycles changes nothing; in append
\* mode the table still holds what it held before the first, in replace mode
\* (TradeCalendar.download) it is empty whatever it held before.
C10_SecondEmptyCycleChangesNothing ==
    TwoEmptyCycles =>
        /\ rows = lastWrite.pre
        /\ lastWrite.mode = "append" => rows = prevEmpty.pre
        /\ lastWrite.mode = "replace" => rows = <<>>

\* C10 witness: TradeCalendar.download ran twice with an empty row-set on a
\* table that held two rows
C10_Witness ==
    /\ TwoEmptyCycles
    /\ lastWrite.by = "download"
    /\ prevEmpty.pre = <<20080228, 20090228>>
    /\ rows = <<>>

C12_FetchGoesThroughRetryCall ==
    /\ lastOp = "download" => pc[1] = "returned"
    /\ lastOp = "fetch_raised" => (pc[1] = "raised" /\ frame[1].fails = RETRY)

\* the table and its index
Content == <<tableExists, rows, hasIndex>>

\* C13: no step inside retry_call (attempt, sleep, exhaustion) and no cycle
\* whose fetch raised changes the table; the table changes only in a download
\* whose fetch succeeded, which writes the fetched row-set once.
C13_NoPartialCommit ==
    [][/\ pc[1] \in {"loop", "sleeping"} => Content' = Content
       /\ lastOp' = "fetch_raised" => Content' = Content
       /\ Content' # Content =>
             /\ lastWrite'.by = "download"
             /\ lastWrite'.pre = rows
             /\ lastOp' \in {"download", "raised"}
       /\ (lastOp' = "download" /\ lastWrite' # lastWrite) => rows' = lastWrite'.df
      ]_vars

\* C13 witness: on a table that holds a row, a cycle's fetch raised and a
\* retry_call ran into exhaustion
C13_Witness ==
    /\ rows # <<>>
    /\ lastOp = "fetch_raised"
    /\ pc[1] = "raised"
    /\ frame[1].fails = RETRY

\* what the next get_start_date returns
NextStart == get_start_date(tableExists, rows)

C15_GetStartDateIsPureRead ==
    [][(lastOp' = "get_start_date" /\ Sequential /\ pc' = pc) =>
          /\ Content' = Content
          /\ retry_count' = retry_count
          /\ frame' = frame
          /\ invocations' = invocations
          /\ lastWrite' = lastWrite
          /\ lastOp = "get_start_date" => startDate' = startDate
      ]_vars

\* C15 witness: get_start_date answered on a table with a row, on a
\* downloader whose retry budget is used up
C15_Witness ==
    /\ lastOp = "get_start_date"
    /\ startDate = <<20090301>>
    /\ rows = <<20090228>>
    /\ retry_count[1] = RETRY

\* ----------------------------------- claims: MultiStocksFactorStrategy
\* C16: for a strategy with period >= 1, count is the number of next()
\* callbacks so far and 0 <= current_day < period after every callback; the
\* k-th callback reaches select_stocks exactly if k is a multiple of period,
\* and a callback that does not reach it places no order and leaves
\* current_stocks as it was.
C16_PeriodicRebalancing ==
    (strategy_pc # "none" /\ period >= 1) =>
        /\ count = callbacks
        /\ 0 <= current_day
        /\ current_day < period
        /\ callbacks >= 1 => (last.reached <=> callbacks % period = 0)
        /\ (callbacks >= 1 /\ callbacks % period # 0) =>
              /\ last.closed = {}
              /\ last.bought = <<>>
              /\ current_stocks = last.prev

\* C16 witness: with period 2 the 3rd callback waits, the 2nd having bought
C16_Witness ==
    /\ strategy_pc = "ready"
    /\ period = 2
    /\ callbacks = 3
    /\ count = 3
    /\ current_day = 1
    /\ ~last.reached
    /\ current_stocks # <<>>

NoDuplicate(s) == \A i, j \in DOMAIN s : s[i] = s[j] => i = j

\* C17: current_stocks never holds a name twice nor a name the feed lacks;
\* after a callback that rebalanced with a non-empty selection and returned,
\* the set of current_stocks is the selected names of the feed: the held
\* names not selected were closed and removed, the selected names of the
\* feed not held were bought once each and appended, the held and selected
\* names stay where they were.
C17_HoldingsFollowSelection ==
    /\ NoDuplicate(current_stocks)
    /\ Range(current_stocks) \subseteq getdatanames
    /\ (strategy_pc = "ready" /\ last.reached /\ last.selected # <<>>) =>
          LET selected == last.selected[1]
              wanted == Range(selected) \cap getdatanames
              held == Range(last.prev)
              kept(stock) == stock \in Range(selected)
          IN  /\ selected # <<>>
              /\ Range(current_stocks) = wanted
              /\ last.closed = held \ Range(selected)
              /\ Range(last.bought) = wanted \ held
              /\ NoDuplicate(last.bought)
              /\ current_stocks = SelectSeq(last.prev, kept) \o last.bought

\* C17 witness: holding A and B, the selection B, C closes A, keeps B, buys C
C17_Witness ==
    /\ strategy_pc = "ready"
    /\ last.reached
    /\ last.prev = <<"A", "B">>
    /\ last.selected = << <<"B", "C">> >>
    /\ last.closed = {"A"}
    /\ last.bought = <<"C">>
    /\ current_stocks = <<"B", "C">>

\* ------------------------------------------- claims: retry_call, internal
\* C18: the attempt counter stays within 0..RETRY, and it is 0 when an
\* invocation has returned a row-set.
C18_RetryCountInRange ==
    \A c \in Contexts :
        /\ 0 <= retry_count[c]
        /\ retry_count[c] <= RETRY
        /\ pc[c] = "returned" => retry_count[c] = 0

\* C18 witness: an invocation returned on its last attempt
C18_Witness ==
    /\ pc[1] = "returned"
    /\ frame[1].fails = RETRY - 1
    /\ retry_count[1] = 0
    /\ invocations[1] = 2

\* C19: in an invocation started at attempt 0 every failed call is followed by
\* its sleep before the next loop test: back at the loop test k failures have
\* been slept for, and the exhaustion error is raised only after RETRY failed
\* calls and RETRY sleeps, 30 * (2^0 + ... + 2^(RETRY-1)) seconds in all.
C19_EveryFailureSleepsFirst ==
    \A c \in Contexts :
        frame[c].start_count = 0 =>
            /\ pc[c] = "loop" => frame[c].slept = BackoffSum(frame[c].fails)
            /\ pc[c] = "sleeping" =>
                  /\ frame[c].fails >= 1
                  /\ frame[c].slept = BackoffSum(frame[c].fails - 1)
            /\ pc[c] = "raised" =>
                  /\ frame[c].fails = RETRY
                  /\ frame[c].calls = RETRY
                  /\ frame[c].slept = BackoffSum(RETRY)
                  /\ now >= wake[c]

\* C19 witness: exhausted from attempt 0, 30 * 31 = 930 seconds slept
C19_Witness ==
    /\ pc[1] = "raised"
    /\ frame[1].start_count = 0
    /\ frame[1].slept = 930000
    /\ now >= 930000

====
